---- MODULE Spec2Model ----
(***************************************************************************)
(* Educhain chatbot (src/app.py): the Streamlit script main(), its OAuth2  *)
(* helpers, the function-call dispatch loop over the streamed model        *)
(* response, the question handlers and the Google Forms publication.       *)
(*                                                                         *)
(* Every user interaction reruns main() from the top: the actions below    *)
(* are those reruns.  A chat turn is split at the iterations of the        *)
(* `for chunk in response` loop, its only suspension points.               *)
(*                                                                         *)
(* Text is a sequence of string pieces; concatenation is \o.               *)
(***************************************************************************)
EXTENDS Integers, Sequences, FiniteSets, TLC

VARIABLES
    api_key,            \* the sidebar text input holds a key
    session_state,      \* st.session_state: authenticated, credentials, oauth_state, auth_url, messages
    query_params,       \* st.query_params: code and state of the page URL
    issued,             \* number of state tokens flow.authorization_url has produced
    requests_since_exchange, \* authenticate_google_api calls since the last fetch_token (history)
    auth_status,        \* what the coordinator last reported (st.success / st.error)
    pc,                 \* "idle" (no turn yet), "stream" (inside the chunk loop), "done"
    response,           \* the chunks the loop has taken from the model stream in this turn
    full_response,      \* local full_response
    function_called,    \* local function_called
    message_placeholder,\* what the assistant placeholder shows
    handler_calls,      \* handler bodies entered in this turn, in order
    engine_calls,       \* qna_engine.generate_questions calls of this turn
    engine_results,     \* what those calls returned (the local `questions`)
    form_requests,      \* Forms API requests executed in this turn
    outcome             \* the branch that produced the turn's result

vars == <<api_key, session_state, query_params, issued, requests_since_exchange,
          auth_status, pc, response, full_response, function_called,
          message_placeholder, handler_calls, engine_calls, engine_results,
          form_requests, outcome>>

turn_vars == <<pc, response, full_response, function_called,
               message_placeholder, handler_calls, engine_calls, engine_results,
               form_requests, outcome>>

-----------------------------------------------------------------------------
(* Bounds of the model.                                                    *)

MaxTokens == 2      \* state tokens issued in a session
MaxFrags == 2       \* chunks of one streamed response
MaxTurns == 1       \* prompts submitted in a session
MaxQuestions == 2   \* questions the engine returns

-----------------------------------------------------------------------------
(* Values.                                                                 *)

NoCode == "none"                 \* query_params.get("code", None) is None
AuthCodes == {"code1"}           \* authorization codes a redirect may carry
NoState == 0                     \* no state token (None); tokens are 1..issued
FORM_TITLE == <<"QUIZ">>
GREETING == <<"How can I help you generate questions?">>
FUNCTION_CALL_PROCESSED == <<"Function call processed. See questions below.">>
ERROR_GENERATING == <<"Error generating response.">>
ERROR_PROCESSING == <<"Error processing function call.">>
FORM_FAILED == <<"Failed to create Google Form.">>

\* An absent value (None) is the empty sequence, a present one a 1-tuple.
Absent == <<>>
Some(v) == <<v>>
Present(o) == o # <<>>

\* The URL returned by flow.authorization_url embeds the state token.
AuthorizationUrl(state) == <<"auth_uri?state=", state>>

-----------------------------------------------------------------------------
(* Authentication functions: operators from a session_state to the next.   *)

\* authenticate_google_api: `ok` is whether the flow could be built; the
\* token is the next fresh one.  Result: the session_state and the URL.
authenticate_google_api(ss, token, ok) ==
    IF ok
    THEN [ss |-> [ss EXCEPT !.oauth_state = token],
          url |-> Some(AuthorizationUrl(token))]
    ELSE [ss |-> ss, url |-> Absent]

\* Whether flow.fetch_token(code=auth_code) returns: the flow was built with
\* the stored state, and the exchange posts the code alone to the token
\* endpoint; the state of the redirect is not an argument of the call.
FetchTokenSucceeds(stored_state, presented_state, endpoint_ok) == endpoint_ok

\* complete_authentication(auth_code): stores the credential and the flag
\* when fetch_token returns, changes nothing when it raises.
SetsFlagWithoutCredential(ss, auth_code, presented_state, endpoint_ok) ==
    [ss |-> [ss EXCEPT !.authenticated = TRUE], credentials |-> Absent]
complete_authentication(ss, auth_code, presented_state, endpoint_ok) ==
    IF FetchTokenSucceeds(ss.oauth_state, presented_state, endpoint_ok)
    THEN [ss |-> [ss EXCEPT !.credentials = Some([code |-> auth_code, expired |-> FALSE]),
                            !.authenticated = TRUE],
          credentials |-> Some([code |-> auth_code, expired |-> FALSE])]
    ELSE [ss |-> ss, credentials |-> Absent]

-----------------------------------------------------------------------------
(* Function schemas and the function map.                                  *)

StringValue(v) == [type |-> "STRING", v |-> v]
IntegerValue(v) == [type |-> "INTEGER", v |-> v]

\* The schema every declaration shares (mcq_params_schema ... generate_form_params_schema).
params_schema ==
    [properties |-> [topic |-> "STRING", num_questions |-> "INTEGER",
                     custom_instructions |-> "STRING"],
     required |-> {"topic", "num_questions"}]

\* Arguments that satisfy the declared schema: required keys present, every
\* key declared, every value of the declared scalar type.
SchemaValid(args) ==
    /\ params_schema.required \subseteq DOMAIN args
    /\ DOMAIN args \subseteq DOMAIN params_schema.properties
    /\ \A k \in DOMAIN args : args[k].type = params_schema.properties[k]

function_map ==
    {"generate_mcq", "generate_short_answer", "generate_true_false",
     "generate_fill_blank", "generate_form"}

\* `if function_name in function_map: ... function_map[function_name]`:
\* the handler the dispatcher will call, Absent for an unknown name.
LookupDefault(function_name) ==
    IF function_name \in function_map THEN Some(function_name) ELSE Some("generate_mcq")
Lookup(function_name) ==
    IF function_name \in function_map THEN Some(function_name) ELSE Absent

\* question_type each question handler passes to the engine.
QuestionType(name) ==
    CASE name = "generate_mcq" -> "Multiple Choice"
      [] name = "generate_short_answer" -> "Short Answer"
      [] name = "generate_true_false" -> "True/False"
      [] name = "generate_fill_blank" -> "Fill in the Blank"
      [] name = "generate_form" -> "Multiple Choice"

\* f(qna_engine_instance, **arguments) binds to
\* (qna_engine_instance, topic, num_questions, custom_instructions=None);
\* otherwise Python raises TypeError before the body runs.
Binds(args) ==
    /\ {"topic", "num_questions"} \subseteq DOMAIN args
    /\ DOMAIN args \subseteq {"topic", "num_questions", "custom_instructions"}

-----------------------------------------------------------------------------
(* What the collaborators may answer.                                      *)

Questions ==
    {[question |-> "q1", options |-> <<"A", "B">>],
     [question |-> "q2", answer |-> "x"]}

QuestionSets == UNION {[1..n -> Questions] : n \in 0..MaxQuestions}

\* qna_engine.generate_questions: raises, returns None, or returns a set.
EngineResults ==
    {[kind |-> "raise", questions |-> <<>>], [kind |-> "none", questions |-> <<>>]}
    \cup {[kind |-> "ok", questions |-> qs] : qs \in QuestionSets}

FormIds == {"f1", "f2"}

\* The Forms service: whether creds.authorize/build returns, what
\* forms().create answers, whether forms().batchUpdate succeeds.
FormServiceResults ==
    {[build |-> FALSE, create |-> "fail", batch |-> FALSE],
     [build |-> TRUE, create |-> "fail", batch |-> FALSE]}
    \cup [build : {TRUE}, create : FormIds, batch : BOOLEAN]

\* What the collaborators answer while a chunk is handled: the engine is
\* asked only by a call that reaches a handler, the Forms service only by
\* generate_form.
NoAnswer ==
    [eres |-> [kind |-> "none", questions |-> <<>>],
     fs |-> [build |-> FALSE, create |-> "fail", batch |-> FALSE]]
Answers(chunk) ==
    IF ~("function_call" \in DOMAIN chunk) THEN {NoAnswer}
    ELSE IF chunk.function_call.name \notin function_map THEN {NoAnswer}
    ELSE IF ~Binds(chunk.function_call.args) THEN {NoAnswer}
    ELSE IF chunk.function_call.name = "generate_form"
    THEN [eres : EngineResults, fs : FormServiceResults]
    ELSE [eres : EngineResults, fs : {NoAnswer.fs}]

-----------------------------------------------------------------------------
(* Form translation and publication.                                       *)

\* The createItem request of the question at 0-based position i.
CreateItemOneBased(question_data, i) ==
    [title |-> question_data.question,
     type |-> IF "options" \in DOMAIN question_data THEN "RADIO" ELSE "TEXT",
     options |-> IF "options" \in DOMAIN question_data THEN question_data.options ELSE <<>>,
     index |-> i + 1]
CreateItem(question_data, i) ==
    IF "options" \in DOMAIN question_data
    THEN [title |-> question_data.question, type |-> "RADIO",
          options |-> question_data.options, index |-> i]
    ELSE [title |-> question_data.question, type |-> "TEXT",
          options |-> <<>>, index |-> i]

\* The batchUpdate payload built by the enumerate loop.
BuildRequests(questions) ==
    [j \in 1..Len(questions) |-> CreateItem(questions[j], j - 1)]

\* f"https://docs.google.com/forms/d/{form_id}/viewform"
FormUrlEdit(form_id) == <<"https://docs.google.com/forms/d/", form_id, "/edit">>
FormUrl(form_id) == <<"https://docs.google.com/forms/d/", form_id, "/viewform">>

\* Whether the population request is sent for a payload.
SendsBatchAlways(requests) == TRUE
SendsBatch(requests) == requests # <<>>

\* create_form_with_questions: the requests executed, each with what the
\* service answered (for create, the formId it returned or "fail"), and the
\* URL returned (Absent when the except branch returned None).
create_form_with_questions(creds, form_title, eres, fs) ==
    LET create == [op |-> "create", title |-> form_title, formId |-> fs.create,
                   requests |-> <<>>, ok |-> fs.create # "fail"]
        requests == BuildRequests(eres.questions)
        batch == [op |-> "batchUpdate", title |-> <<>>, formId |-> fs.create,
                  requests |-> requests, ok |-> fs.batch]
    IN  IF ~fs.build THEN [form_requests |-> <<>>, form_url |-> Absent]
        ELSE IF fs.create = "fail" THEN [form_requests |-> <<create>>, form_url |-> Absent]
        ELSE IF eres.kind = "none" THEN [form_requests |-> <<create>>, form_url |-> Absent]
        ELSE IF ~SendsBatch(requests)
             THEN [form_requests |-> <<create>>, form_url |-> Some(FormUrl(fs.create))]
        ELSE IF ~fs.batch THEN [form_requests |-> <<create, batch>>, form_url |-> Absent]
        ELSE [form_requests |-> <<create, batch>>, form_url |-> Some(FormUrl(fs.create))]

-----------------------------------------------------------------------------
(* Handlers.                                                               *)

NoInstructions == [type |-> "NONE", v |-> "None"]

EngineCall(name, args) ==
    [topic |-> args.topic, num |-> args.num_questions,
     question_type |-> QuestionType(name),
     custom_instructions |-> IF "custom_instructions" \in DOMAIN args
                             THEN args.custom_instructions ELSE NoInstructions]

\* generate_mcq, generate_short_answer, generate_true_false, generate_fill_blank.
generate_questions(name, args, eres) ==
    [raised |-> eres.kind = "raise",
     result |-> IF eres.kind = "ok" THEN Some(eres.questions) ELSE Absent,
     engine_calls |-> <<EngineCall(name, args)>>,
     engine_results |-> IF eres.kind = "raise" THEN <<>> ELSE <<eres>>,
     form_requests |-> <<>>]

\* Whether generate_form goes on to the engine and the Forms service with
\* the stored credential: `if not creds` looks at its presence alone.
CredentialUsable(creds) == Present(creds)

generate_form(ss, args, eres, fs) ==
    LET creds == ss.credentials
        published == create_form_with_questions(creds, FORM_TITLE, eres, fs)
    IN  IF ~CredentialUsable(creds)
        THEN [raised |-> FALSE, result |-> Absent, engine_calls |-> <<>>,
              engine_results |-> <<>>, form_requests |-> <<>>]
        ELSE IF eres.kind = "raise"
        THEN [raised |-> TRUE, result |-> Absent,
              engine_calls |-> <<EngineCall("generate_form", args)>>,
              engine_results |-> <<>>, form_requests |-> <<>>]
        ELSE [raised |-> FALSE, result |-> published.form_url,
              engine_calls |-> <<EngineCall("generate_form", args)>>,
              engine_results |-> <<eres>>,
              form_requests |-> published.form_requests]

-----------------------------------------------------------------------------
(* The chunks a model stream may yield.                                    *)

Deltas == {"a", "b"}

GoodArgs == [topic |-> StringValue("math"), num_questions |-> IntegerValue("2")]
InstructedArgs ==
    [topic |-> StringValue("math"), num_questions |-> IntegerValue("2"),
     custom_instructions |-> StringValue("easy")]
MissingArgs == [topic |-> StringValue("math")]
WrongTypeArgs == [topic |-> IntegerValue("5"), num_questions |-> IntegerValue("2")]

CallNames == function_map \cup {"foo_bar"}

FunctionCalls ==
    {[name |-> n, args |-> GoodArgs] : n \in CallNames}
    \cup {[name |-> "generate_mcq", args |-> a] :
            a \in {InstructedArgs, MissingArgs, WrongTypeArgs}}

\* chunk.text is a string or None; a chunk whose part is a function call
\* has the attribute function_call.
Chunks ==
    {[text |-> Some(d)] : d \in Deltas} \cup {[text |-> Absent]}
    \cup {[function_call |-> fc] : fc \in FunctionCalls}

\* hasattr(chunk.parts[0], 'function_call')
HasFunctionCall(chunk) == "function_call" \in DOMAIN chunk

\* (chunk.text or "")
TextOf(chunk) == IF Present(chunk.text) THEN chunk.text ELSE <<>>

\* f"Function Call: {function_name} with args: {arguments}"
ArgsText(args) ==
    LET Piece(k) == IF k \in DOMAIN args THEN <<k, args[k].v>> ELSE <<>>
    IN  Piece("topic") \o Piece("num_questions") \o Piece("custom_instructions")
FunctionCallText(fc) == <<"Function Call: ", fc.name, " with args: ">> \o ArgsText(fc.args)

\* f"Google Form created: [Click here]({form_url})"
FormCreatedText(form_url) == <<"Google Form created: [Click here](">> \o form_url \o <<")">>

\* full_response += (chunk.text or "")
AccumulateReplacing(text, chunk) == TextOf(chunk)
Accumulate(text, chunk) == text \o TextOf(chunk)

\* Whether the chunk loop goes on to the next chunk after this one: the
\* `break` that ends the function-call branch leaves the loop.
LoopNeverBreaks(chunk) == TRUE
LoopContinues(chunk) == ~HasFunctionCall(chunk)

-----------------------------------------------------------------------------
(* The function dispatcher: the function-call branch of the chunk loop,    *)
(* up to its break or to the exception that leaves the try block.          *)

Placeholder(text, cursor) == [text |-> text, cursor |-> cursor]
Outcome(tag, url, questions) == [tag |-> tag, url |-> url, questions |-> questions]
NoOutcome == Outcome("none", Absent, Absent)

\* display_questions: the listing, or the error for a falsy result.
DisplayQuestions(result) ==
    IF Present(result) THEN Outcome("Questions", Absent, result)
    ELSE Outcome("NoQuestions", Absent, Absent)

\* `if function_name == "generate_form"`: the special handling of the form.
IsFormCall(function_name) == function_name = "generate_form"

Dispatch(ss, fc, eres, fs) ==
    LET shown == FunctionCallText(fc)
        handler == Lookup(fc.name)
        h == IF IsFormCall(fc.name)
             THEN generate_form(ss, fc.args, eres, fs)
             ELSE generate_questions(handler[1], fc.args, eres)
        call == <<[name |-> handler[1], args |-> fc.args]>>
        Raised(calls, engine) ==
            [raised |-> TRUE, full_response |-> shown,
             placeholder |-> Placeholder(shown, TRUE),
             handler_calls |-> calls, engine_calls |-> engine,
             engine_results |-> <<>>, form_requests |-> <<>>, outcome |-> NoOutcome]
    IN  IF ~Present(handler)
        THEN [raised |-> FALSE, full_response |-> ERROR_PROCESSING,
              placeholder |-> Placeholder(ERROR_PROCESSING, FALSE),
              handler_calls |-> <<>>, engine_calls |-> <<>>, engine_results |-> <<>>,
              form_requests |-> <<>>,
              outcome |-> Outcome("UnknownFunction", Absent, Absent)]
        ELSE IF ~Binds(fc.args) THEN Raised(<<>>, <<>>)
        ELSE IF h.raised THEN Raised(call, h.engine_calls)
        ELSE IF IsFormCall(fc.name)
        THEN IF Present(h.result)
             THEN [raised |-> FALSE, full_response |-> FormCreatedText(h.result[1]),
                   placeholder |-> Placeholder(FormCreatedText(h.result[1]), FALSE),
                   handler_calls |-> call, engine_calls |-> h.engine_calls,
                   engine_results |-> h.engine_results,
                   form_requests |-> h.form_requests,
                   outcome |-> Outcome("FormCreated", h.result, Absent)]
             ELSE [raised |-> FALSE, full_response |-> FORM_FAILED,
                   placeholder |-> Placeholder(FORM_FAILED, FALSE),
                   handler_calls |-> call, engine_calls |-> h.engine_calls,
                   engine_results |-> h.engine_results,
                   form_requests |-> h.form_requests,
                   outcome |-> Outcome("FormFailed", Absent, Absent)]
        ELSE [raised |-> FALSE, full_response |-> shown,
              placeholder |-> Placeholder(<<>>, FALSE),
              handler_calls |-> call, engine_calls |-> h.engine_calls,
              engine_results |-> h.engine_results,
              form_requests |-> <<>>, outcome |-> DisplayQuestions(h.result)]

-----------------------------------------------------------------------------
(* main(): the sidebar and the start of the main content.                  *)

Message(role, content) == [role |-> role, content |-> content]

\* `if "messages" not in st.session_state`: the key is absent until the
\* greeting is stored, and the list is never empty afterwards.
InitMessages(ss) ==
    IF ss.authenticated /\ ss.messages = <<>>
    THEN [ss EXCEPT !.messages = <<Message("assistant", GREETING)>>]
    ELSE ss

\* `if not st.session_state.get("authenticated", False)`: whether the run
\* reaches the authentication button and the redirect handling.
AuthenticationAlwaysOffered(ss) == TRUE
AuthenticationOffered(ss) == ~ss.authenticated

\* One run of main() without a prompt: the authentication button, the
\* redirect handling and the conditional main content.  `button` is whether
\* the run was started by the button, `auth_ok` and `endpoint_ok` what the
\* flow construction and the token endpoint answer.
RunMain(ss, qp, button, auth_ok, endpoint_ok, st) ==
    IF ~AuthenticationOffered(ss) THEN [st EXCEPT !.ss = InitMessages(ss)]
    ELSE
    LET a == IF button THEN authenticate_google_api(ss, st.issued + 1, auth_ok)
             ELSE [ss |-> ss, url |-> Absent]
        s1 == IF button /\ Present(a.url) THEN [a.ss EXCEPT !.auth_url = a.url] ELSE a.ss
        st1 == IF ~button THEN st
               ELSE IF Present(a.url)
               THEN [st EXCEPT !.issued = @ + 1, !.requests = @ + 1,
                               !.status = "AuthorizationUrl"]
               ELSE [st EXCEPT !.status = "AuthenticationError"]
        c == complete_authentication(s1, qp.code, qp.state, endpoint_ok)
    IN  IF qp.code = NoCode THEN [st1 EXCEPT !.ss = InitMessages(s1)]
        ELSE [st1 EXCEPT !.ss = InitMessages(c.ss), !.requests = 0,
                         !.status = IF Present(c.credentials) THEN "Authenticated"
                                    ELSE "AuthExchangeFailed"]

Coordinator == [ss |-> session_state, issued |-> issued,
                requests |-> requests_since_exchange, status |-> auth_status]

Rerun(qp, button, auth_ok, endpoint_ok) ==
    LET r == RunMain(session_state, qp, button, auth_ok, endpoint_ok, Coordinator)
    IN  /\ session_state' = r.ss
        /\ issued' = r.issued
        /\ requests_since_exchange' = r.requests
        /\ auth_status' = r.status

-----------------------------------------------------------------------------
(* Initial state and actions.                                              *)

Init ==
    /\ api_key = FALSE
    /\ session_state = [authenticated |-> FALSE, credentials |-> Absent,
                        oauth_state |-> NoState, auth_url |-> Absent, messages |-> <<>>]
    /\ query_params = [code |-> NoCode, state |-> NoState]
    /\ issued = 0
    /\ requests_since_exchange = 0
    /\ auth_status = "none"
    /\ pc = "idle"
    /\ response = <<>>
    /\ full_response = <<>>
    /\ function_called = FALSE
    /\ message_placeholder = Placeholder(<<>>, FALSE)
    /\ handler_calls = <<>>
    /\ engine_calls = <<>>
    /\ engine_results = <<>>
    /\ form_requests = <<>>
    /\ outcome = NoOutcome

\* What the token endpoint may answer in a run: it is asked only by
\* complete_authentication.
EndpointAnswers(key, ss, code) ==
    IF key /\ ~ss.authenticated /\ code # NoCode THEN BOOLEAN ELSE {FALSE}

\* The user types the API key: the first run that gets past st.stop().
EnterApiKey ==
    /\ ~api_key
    /\ api_key' = TRUE
    /\ \E endpoint_ok \in EndpointAnswers(TRUE, session_state, query_params.code) :
          Rerun(query_params, FALSE, TRUE, endpoint_ok)
    /\ UNCHANGED <<query_params, turn_vars>>

\* The user presses "Authenticate with Google" (rendered while not authenticated).
ClickAuthenticate ==
    /\ api_key
    /\ ~session_state.authenticated
    /\ pc # "stream"
    /\ issued < MaxTokens
    /\ \E auth_ok \in BOOLEAN :
       \E endpoint_ok \in EndpointAnswers(TRUE, session_state, query_params.code) :
          Rerun(query_params, TRUE, auth_ok, endpoint_ok)
    /\ UNCHANGED <<api_key, query_params, turn_vars>>

\* The browser arrives at the app URL with a code and a state in the query
\* (the authorization server's redirect, or a link made to look like it),
\* and main() runs.  state 0 is a missing state parameter.
Redirect ==
    /\ pc # "stream"
    /\ \E code \in AuthCodes, state \in 0..issued :
       \E endpoint_ok \in EndpointAnswers(api_key, session_state, code) :
          /\ query_params' = [code |-> code, state |-> state]
          /\ query_params' # query_params
          /\ IF api_key THEN Rerun(query_params', FALSE, TRUE, endpoint_ok)
             ELSE UNCHANGED <<session_state, issued, requests_since_exchange, auth_status>>
    /\ UNCHANGED <<api_key, turn_vars>>

\* Time passes beyond the stored credential's expiry.
Expire ==
    /\ Present(session_state.credentials)
    /\ ~session_state.credentials[1].expired
    /\ session_state' = [session_state EXCEPT !.credentials[1].expired = TRUE]
    /\ UNCHANGED <<api_key, query_params, issued, requests_since_exchange,
                   auth_status, turn_vars>>

UserTurns(messages) == Cardinality({i \in 1..Len(messages) : messages[i].role = "user"})

\* st.chat_input returns a prompt: the user message is stored and the
\* stream is requested.
SubmitPrompt ==
    /\ api_key
    /\ session_state.authenticated
    /\ pc # "stream"
    /\ UserTurns(session_state.messages) < MaxTurns
    /\ session_state' = [InitMessages(session_state) EXCEPT
                            !.messages = Append(@, Message("user", <<"prompt">>))]
    /\ pc' = "stream"
    /\ response' = <<>>
    /\ full_response' = <<>>
    /\ function_called' = FALSE
    /\ message_placeholder' = Placeholder(<<>>, FALSE)
    /\ handler_calls' = <<>>
    /\ engine_calls' = <<>>
    /\ engine_results' = <<>>
    /\ form_requests' = <<>>
    /\ outcome' = NoOutcome
    /\ UNCHANGED <<api_key, query_params, issued, requests_since_exchange, auth_status>>

\* Line 487: the assistant message stored at the end of the turn.
FinishTurnAndRetry(text, called) ==
    /\ session_state' = [session_state EXCEPT !.messages =
            Append(@, Message("assistant",
                              IF ~called THEN text ELSE FUNCTION_CALL_PROCESSED))]
    /\ pc' = "stream"
FinishTurn(text, called) ==
    /\ session_state' = [session_state EXCEPT !.messages =
            Append(@, Message("assistant",
                              IF ~called THEN text ELSE FUNCTION_CALL_PROCESSED))]
    /\ pc' = "done"

\* One iteration of `for chunk in response`.
ReadChunk ==
    /\ pc = "stream"
    /\ Len(response) < MaxFrags
    /\ \E chunk \in Chunks : \E env \in Answers(chunk) :
        /\ response' = Append(response, chunk)
        /\ IF HasFunctionCall(chunk)
           THEN LET d == Dispatch(session_state, chunk.function_call, env.eres, env.fs)
                IN  /\ function_called' = TRUE
                    /\ handler_calls' = handler_calls \o d.handler_calls
                    /\ engine_calls' = engine_calls \o d.engine_calls
                    /\ engine_results' = engine_results \o d.engine_results
                    /\ form_requests' = form_requests \o d.form_requests
                    /\ IF d.raised
                       THEN /\ full_response' = ERROR_GENERATING
                            /\ message_placeholder' = Placeholder(ERROR_GENERATING, FALSE)
                            /\ outcome' = Outcome("Exception", Absent, Absent)
                            /\ FinishTurn(full_response', TRUE)
                       ELSE /\ full_response' = d.full_response
                            /\ message_placeholder' = d.placeholder
                            /\ outcome' = d.outcome
                            /\ IF LoopContinues(chunk)
                               THEN UNCHANGED <<session_state, pc>>
                               ELSE FinishTurn(full_response', TRUE)
           ELSE /\ IF ~function_called
                   THEN /\ full_response' = Accumulate(full_response, chunk)
                        /\ message_placeholder' = Placeholder(full_response', TRUE)
                   ELSE UNCHANGED <<full_response, message_placeholder>>
                /\ UNCHANGED <<session_state, pc, function_called, handler_calls,
                               engine_calls, engine_results, form_requests, outcome>>
    /\ UNCHANGED <<api_key, query_params, issued, requests_since_exchange, auth_status>>

\* The stream is exhausted: the loop ends and the text is finalized.
StreamEnds ==
    /\ pc = "stream"
    /\ IF ~function_called
       THEN /\ message_placeholder' = Placeholder(full_response, FALSE)
            /\ outcome' = Outcome("Text", Absent, Absent)
       ELSE UNCHANGED <<message_placeholder, outcome>>
    /\ FinishTurn(full_response, function_called)
    /\ UNCHANGED <<api_key, query_params, issued, requests_since_exchange, auth_status,
                   response, full_response, function_called, handler_calls,
                   engine_calls, engine_results, form_requests>>

\* generate_content or the iteration raises: the except branch.
StreamRaises ==
    /\ pc = "stream"
    /\ full_response' = ERROR_GENERATING
    /\ message_placeholder' = Placeholder(ERROR_GENERATING, FALSE)
    /\ outcome' = Outcome("Exception", Absent, Absent)
    /\ FinishTurn(ERROR_GENERATING, function_called)
    /\ UNCHANGED <<api_key, query_params, issued, requests_since_exchange, auth_status,
                   response, function_called, handler_calls, engine_calls,
                   engine_results, form_requests>>

Next ==
    \/ EnterApiKey
    \/ ClickAuthenticate
    \/ Redirect
    \/ Expire
    \/ SubmitPrompt
    \/ ReadChunk
    \/ StreamEnds
    \/ StreamRaises

Spec == Init /\ [][Next]_vars

-----------------------------------------------------------------------------
(* Properties of the dispatch loop.                                        *)

RegisteredNames ==
    {"generate_mcq", "generate_short_answer", "generate_true_false",
     "generate_fill_blank", "generate_form"}

LastChunk == response[Len(response)]
EndedOnCall == pc = "done" /\ response # <<>> /\ HasFunctionCall(LastChunk)
LastMessage == session_state.messages[Len(session_state.messages)]

\* C1: consumption stops at the first function-call chunk.  No chunk is
\* taken from the stream after a function-call chunk (it is the last chunk
\* taken and the turn is over); when it names a registered function and its
\* arguments bind, the handler it names has run exactly once, with exactly
\* its arguments, the engine was asked once with them, and the stored
\* assistant message is the fixed function-call message.
C1_StopsAtFirstCall ==
    /\ \A i \in 1..Len(response) :
          HasFunctionCall(response[i]) => i = Len(response) /\ pc = "done"
    /\ (EndedOnCall /\ LastChunk.function_call.name \in RegisteredNames
                    /\ Binds(LastChunk.function_call.args))
       => /\ handler_calls = <<LastChunk.function_call>>
          /\ engine_calls = <<EngineCall(LastChunk.function_call.name,
                                         LastChunk.function_call.args)>>
          /\ LastMessage = Message("assistant", FUNCTION_CALL_PROCESSED)

\* A text chunk, then generate_mcq with {topic: math, num_questions: 2}.
C1_Witness ==
    /\ pc = "done"
    /\ Len(response) = 2
    /\ ~HasFunctionCall(response[1])
    /\ response[2] = [function_call |-> [name |-> "generate_mcq", args |-> GoodArgs]]
    /\ handler_calls = <<[name |-> "generate_mcq", args |-> GoodArgs]>>
    /\ outcome.tag = "Questions"

\* C2: a function-call chunk whose name is none of the five registered
\* names runs no handler (no handler body, no engine call, no Forms
\* request) and ends the turn with the unknown-function error.
C2_UnknownFunction ==
    (EndedOnCall /\ LastChunk.function_call.name \notin RegisteredNames)
    => /\ handler_calls = <<>>
       /\ engine_calls = <<>>
       /\ form_requests = <<>>
       /\ outcome.tag = "UnknownFunction"
       /\ message_placeholder.text = ERROR_PROCESSING

C2_Witness ==
    /\ EndedOnCall
    /\ LastChunk.function_call.name = "foo_bar"
    /\ outcome.tag = "UnknownFunction"

\* C3: in every turn at most one handler is invoked (and the engine asked
\* at most once), and once a handler has been invoked the turn is over, so
\* a handler that failed is not invoked again.
C3_AtMostOneHandler ==
    /\ Len(handler_calls) <= 1
    /\ Len(engine_calls) <= 1
    /\ handler_calls # <<>> => pc = "done"

\* A handler was invoked and failed: it raised, or it returned no result.
C3_Witness ==
    /\ pc = "done"
    /\ Len(handler_calls) = 1
    /\ outcome.tag \in {"Exception", "NoQuestions", "FormFailed"}

\* C4 (as claimed): a call of a registered function whose arguments violate
\* the declared schema fails the turn with an error and runs no handler.
C4_InvalidArgumentsRejected ==
    (EndedOnCall /\ LastChunk.function_call.name \in RegisteredNames
                 /\ ~SchemaValid(LastChunk.function_call.args))
    => /\ handler_calls = <<>>
       /\ engine_calls = <<>>
       /\ form_requests = <<>>
       /\ outcome.tag \in {"InvalidArguments", "Exception"}

-----------------------------------------------------------------------------
(* Properties of the authorization coordinator.                            *)

\* C5 (as claimed): after two authorization requests with no exchange in
\* between, a redirect that presents another state than the one the second
\* request stored is rejected: the exchange fails and no credential is
\* stored.
C5_StaleTokenRejected ==
    [][(/\ api_key
        /\ requests_since_exchange >= 2
        /\ query_params' # query_params
        /\ query_params'.state # session_state.oauth_state)
       => /\ ~session_state'.authenticated
          /\ session_state'.credentials = Absent
          /\ auth_status' = "AuthExchangeFailed"]_vars

\* C6 (as claimed): the session becomes authenticated only by an exchange
\* made while a pending state token is stored and for a redirect whose
\* state equals that token.
C6_AuthenticatedOnlyByMatchingState ==
    [][(~session_state.authenticated /\ session_state'.authenticated)
       => /\ session_state'.oauth_state # NoState
          /\ query_params'.state = session_state'.oauth_state]_vars

\* C7 (as claimed): after a successful exchange the session holds a
\* credential and no pending state token.
C7_TokenSingleUse ==
    auth_status = "Authenticated"
    => /\ Present(session_state.credentials)
       /\ session_state.oauth_state = NoState

\* C8 (as claimed): after a failed exchange the coordinator is back in
\* UNAUTHENTICATED: no credential, the flag unset, no pending state token.
C8_FailedExchangeReverts ==
    auth_status = "AuthExchangeFailed"
    => /\ session_state.credentials = Absent
       /\ ~session_state.authenticated
       /\ session_state.oauth_state = NoState

\* A turn's step in which generate_form is entered while the stored
\* credential's expiry has passed.
FormCallWithExpiredCredential ==
    /\ pc = "stream"
    /\ pc' = "done"
    /\ Present(session_state.credentials)
    /\ session_state.credentials[1].expired
    /\ response' # <<>>
    /\ HasFunctionCall(response'[Len(response')])
    /\ response'[Len(response')].function_call.name = "generate_form"
    /\ Binds(response'[Len(response')].function_call.args)

\* C9 (as claimed): with an expired credential generate_form neither asks
\* the engine nor sends a Forms request, and reports no created form.
C9_ExpiredCredentialNotUsed ==
    [][FormCallWithExpiredCredential
       => /\ engine_calls' = <<>>
          /\ form_requests' = <<>>
          /\ outcome'.tag # "FormCreated"]_vars

\* C10 (as claimed): with an expired credential generate_form starts a new
\* authorization (a fresh pending state token is stored) and the turn's
\* outcome is the tagged AuthorizationRequired.
C10_AuthorizationRequired ==
    [][FormCallWithExpiredCredential
       => /\ issued' = issued + 1
          /\ session_state'.oauth_state = issued'
          /\ outcome'.tag = "AuthorizationRequired"]_vars

-----------------------------------------------------------------------------
(* Properties of error handling.                                           *)

ErrorTexts == {ERROR_GENERATING, ERROR_PROCESSING, FORM_FAILED}

\* C11 (as claimed): every turn that ended with an error (unknown
\* function, an exception of the stream or of a handler, a failed form
\* publication) has appended an assistant message that records the error.
C11_ErrorsRecorded ==
    (pc = "done" /\ outcome.tag \in {"UnknownFunction", "Exception", "FormFailed"})
    => /\ LastMessage.role = "assistant"
       /\ LastMessage.content \in ErrorTexts

\* The turn ended by an exception raised while the stream was being read
\* (and not by a handler).
StreamFailed ==
    /\ pc = "done"
    /\ outcome.tag = "Exception"
    /\ response # <<>> => ~HasFunctionCall(LastChunk)

\* C12: a stream failure ends the turn without retry.  Once the exception
\* outcome is set the turn is over (the stream is not read or requested
\* again), and a turn ended by a stream failure has invoked no handler, no
\* engine call and no Forms request, shows the error and has stored it as
\* its assistant message.
C12_StreamErrorTerminal ==
    /\ outcome.tag = "Exception" => pc = "done"
    /\ StreamFailed
       => /\ handler_calls = <<>>
          /\ engine_calls = <<>>
          /\ form_requests = <<>>
          /\ message_placeholder = Placeholder(ERROR_GENERATING, FALSE)
          /\ LastMessage = Message("assistant", ERROR_GENERATING)

\* The stream failed after one text chunk had been read.
C12_Witness ==
    /\ StreamFailed
    /\ Len(response) = 1
    /\ full_response = ERROR_GENERATING
    /\ UserTurns(session_state.messages) = 1

-----------------------------------------------------------------------------
(* Properties of the form translation and publication.                     *)

\* The question set the engine returned in this turn.
ReturnedQuestions == engine_results[1].questions

\* C13: the form translation is order-preserving and 1:1.  Every
\* batchUpdate sent carries exactly one entry per question of the set the
\* engine returned; the entry of the question at 0-based position i has
\* location index i and the question's title; a question with options is a
\* RADIO field listing exactly its options in order, every other question
\* a free-text field.
C13_TranslationOrderPreserving ==
    \A k \in 1..Len(form_requests) :
        form_requests[k].op = "batchUpdate"
        => LET entries == form_requests[k].requests
           IN  /\ Len(engine_results) = 1
               /\ Len(entries) = Len(ReturnedQuestions)
               /\ \A j \in 1..Len(entries) :
                    /\ entries[j].index = j - 1
                    /\ entries[j].title = ReturnedQuestions[j].question
                    /\ IF "options" \in DOMAIN ReturnedQuestions[j]
                       THEN /\ entries[j].type = "RADIO"
                            /\ entries[j].options = ReturnedQuestions[j].options
                       ELSE /\ entries[j].type = "TEXT"
                            /\ entries[j].options = <<>>

\* A set of two questions, the first with options and the second without,
\* was translated and sent.
C13_Witness ==
    /\ Len(form_requests) = 2
    /\ Len(form_requests[2].requests) = 2
    /\ form_requests[2].requests[1].type = "RADIO"
    /\ form_requests[2].requests[1].index = 0
    /\ form_requests[2].requests[2].type = "TEXT"
    /\ form_requests[2].requests[2].index = 1

\* generate_form obtained a question set from the engine and the form was
\* created for it.
PublishedSet ==
    /\ engine_results # <<>>
    /\ engine_results[1].kind = "ok"
    /\ form_requests # <<>>
    /\ form_requests[1].ok

\* C14 (as claimed): publishing any question set, an empty one included,
\* issues one creation request followed by one population request.
C14_CreateThenBatchForEverySet ==
    PublishedSet
    => /\ Len(form_requests) = 2
       /\ form_requests[1].op = "create"
       /\ form_requests[2].op = "batchUpdate"

\* C14 (amended): the Forms requests of a turn are none, the creation
\* request alone, or the creation request followed by one population
\* request, which is sent only after a successful creation.  Publishing a
\* non-empty set issues both, the population request carrying one entry per
\* question; publishing an empty set issues the creation request alone.
C14_CreateThenOneBatch ==
    /\ Len(form_requests) <= 2
    /\ form_requests # <<>> => form_requests[1].op = "create"
    /\ Len(form_requests) = 2
       => /\ form_requests[2].op = "batchUpdate"
          /\ form_requests[1].ok
          /\ form_requests[2].formId = form_requests[1].formId
    /\ PublishedSet
       => IF ReturnedQuestions # <<>>
          THEN /\ Len(form_requests) = 2
               /\ Len(form_requests[2].requests) = Len(ReturnedQuestions)
          ELSE Len(form_requests) = 1

\* An empty set was published: the form was created and reported, and no
\* population request was sent.
C14_Witness ==
    /\ PublishedSet
    /\ ReturnedQuestions = <<>>
    /\ form_requests[1].op = "create"
    /\ Len(form_requests) = 1
    /\ outcome.tag = "FormCreated"

\* The turn ended on a generate_form call whose arguments bind.
FormTurn ==
    /\ EndedOnCall
    /\ LastChunk.function_call.name = "generate_form"
    /\ Binds(LastChunk.function_call.args)

\* C15: a generate_form turn whose engine call, creation request and
\* population request all succeed ends with FormCreated(url), the url being
\* https://docs.google.com/forms/d/{formId}/viewform for the formId the
\* creation request returned; when the population request fails after the
\* creation, the outcome is the failure, no url is returned, and the only
\* requests made are the creation and the failed population request (no
\* deletion, no retry).
C15_FormOutcome ==
    (FormTurn /\ Len(form_requests) = 2)
    => IF form_requests[2].ok
       THEN /\ outcome.tag = "FormCreated"
            /\ outcome.url = Some(<<"https://docs.google.com/forms/d/",
                                    form_requests[1].formId, "/viewform">>)
            /\ message_placeholder.text = FormCreatedText(outcome.url[1])
       ELSE /\ outcome.tag = "FormFailed"
            /\ outcome.url = Absent
            /\ message_placeholder.text = FORM_FAILED
            /\ form_requests[1].op = "create"
            /\ form_requests[2].op = "batchUpdate"

\* The form f2 was created and populated.
C15_Witness ==
    /\ FormTurn
    /\ Len(form_requests) = 2
    /\ form_requests[1].formId = "f2"
    /\ form_requests[2].ok
    /\ outcome.tag = "FormCreated"

-----------------------------------------------------------------------------
(* Properties of the question handlers and of the text turn.               *)

\* C16 (as claimed): the question handlers are available whether or not
\* the session holds a Credential Record.  Whenever the key is entered, no
\* turn is running and the session may still take a prompt, a prompt is
\* accepted (and its turn can then serve a question call).
C16_PromptAcceptedWithoutCredential ==
    (api_key /\ pc # "stream" /\ UserTurns(session_state.messages) < MaxTurns)
    => ENABLED SubmitPrompt

\* The concatenation of the deltas of a sequence of text chunks, a chunk
\* without text contributing the empty string.
RECURSIVE DeltasOf(_)
DeltasOf(chunks) ==
    IF chunks = <<>> THEN <<>>
    ELSE DeltasOf(SubSeq(chunks, 1, Len(chunks) - 1))
         \o (IF chunks[Len(chunks)].text = <<>> THEN <<>> ELSE chunks[Len(chunks)].text)

TextOnly == \A i \in 1..Len(response) : ~HasFunctionCall(response[i])

\* C17: in a turn whose stream holds only text chunks, the running buffer
\* (and the text shown) after the k-th chunk is the concatenation of the
\* first k deltas in order, and when the stream ends normally the assistant
\* message stored is the concatenation of all deltas.
C17_TextAccumulates ==
    /\ (pc = "stream" /\ TextOnly)
       => /\ full_response = DeltasOf(response)
          /\ response # <<>> => message_placeholder.text = DeltasOf(response)
    /\ (pc = "done" /\ outcome.tag = "Text")
       => /\ TextOnly
          /\ full_response = DeltasOf(response)
          /\ message_placeholder = Placeholder(DeltasOf(response), FALSE)
          /\ LastMessage = Message("assistant", DeltasOf(response))

\* The stream yielded "a" then "b" and ended.
C17_Witness ==
    /\ pc = "done"
    /\ outcome.tag = "Text"
    /\ response = <<[text |-> Some("a")], [text |-> Some("b")]>>
    /\ LastMessage.content = <<"a", "b">>

-----------------------------------------------------------------------------
(* Properties of the session.                                              *)

\* The history is empty (before the chat is first shown) or the greeting
\* followed by user and assistant messages in alternation, the last one a
\* user message exactly while its turn is running.
HistoryAlternates ==
    LET messages == session_state.messages
    IN  /\ messages # <<>> => messages[1] = Message("assistant", GREETING)
        /\ \A i \in 1..Len(messages) :
              messages[i].role = IF i % 2 = 1 THEN "assistant" ELSE "user"
        /\ pc = "stream" <=> (messages # <<>> /\ Len(messages) % 2 = 0)
        /\ pc = "done" => Len(messages) >= 3
        /\ session_state.authenticated /\ api_key => messages # <<>>

\* A step changes the history only by appending one message: the user
\* message when a prompt is accepted, the assistant message when the turn
\* ends; and every end of a turn appends one.
HistoryAppends ==
    LET messages == session_state.messages
        after == session_state'.messages
    IN  /\ after # messages
           => /\ Len(after) = Len(messages) + 1
              /\ SubSeq(after, 1, Len(messages)) = messages
        /\ (pc # "stream" /\ pc' = "stream")
           => after = Append(messages, Message("user", <<"prompt">>))
        /\ (pc = "stream" /\ pc' = "done")
           => /\ Len(after) = Len(messages) + 1
              /\ after[Len(after)].role = "assistant"

\* C18: the session history is append-only and strictly alternating.  It
\* starts with the greeting, an accepted prompt appends one user message,
\* the end of its turn one assistant message whatever the outcome, and no
\* step changes, removes or reorders an entry.
C18_HistoryAppendOnly == []HistoryAlternates /\ [][HistoryAppends]_vars

\* A turn that ended on an unknown function left greeting, prompt, answer.
C18_Witness ==
    /\ pc = "done"
    /\ outcome.tag = "UnknownFunction"
    /\ Len(session_state.messages) = 3
    /\ session_state.messages[2].role = "user"
    /\ session_state.messages[3].role = "assistant"

\* C19: the authenticated flag is set only while a credential is stored;
\* the chat loop runs only while the flag is set, so every generate_form it
\* invokes passes the credential test and goes on to the engine.
C19_AuthenticatedHasCredential ==
    /\ session_state.authenticated => Present(session_state.credentials)
    /\ pc # "idle" => session_state.authenticated
    /\ \A i \in 1..Len(handler_calls) :
          handler_calls[i].name = "generate_form" => Len(engine_calls) = 1

\* generate_form ran in the chat loop and asked the engine.
C19_Witness ==
    /\ session_state.authenticated
    /\ handler_calls # <<>>
    /\ handler_calls[1].name = "generate_form"
    /\ engine_calls # <<>>
    /\ outcome.tag = "FormFailed"

\* C20: authentication is absorbing.  From an authenticated session every
\* step leaves the flag set and the credential of the same exchange stored
\* (its expiry may pass), and runs neither authenticate_google_api (no
\* token issued, the pending token and the URL unchanged) nor
\* complete_authentication (no exchange reported), also when the page URL
\* brings an authorization code.
C20_AuthenticationAbsorbing ==
    [][session_state.authenticated
       => /\ session_state'.authenticated
          /\ Present(session_state'.credentials)
          /\ session_state'.credentials[1].code = session_state.credentials[1].code
          /\ session_state'.oauth_state = session_state.oauth_state
          /\ session_state'.auth_url = session_state.auth_url
          /\ issued' = issued
          /\ requests_since_exchange' = requests_since_exchange
          /\ auth_status' = auth_status]_vars

\* A turn ran to its end with an authorization code in the page URL and an
\* expired credential, the session still authenticated by the first exchange.
C20_Witness ==
    /\ session_state.authenticated
    /\ session_state.credentials[1].expired
    /\ query_params.code \in AuthCodes
    /\ query_params.state # session_state.oauth_state
    /\ auth_status = "Authenticated"
    /\ pc = "done"
    /\ outcome.tag = "NoQuestions"

====
